---- MODULE Spec2Model ----
(***************************************************************************)
(* Model of the chess REST service in src/src/main.rs: the session         *)
(* registry (Store), its readers-writer lock, the five request handlers    *)
(* and the rules capability (the shakmaty calls the handlers make).         *)
(*                                                                         *)
(* Texts (UCI, SAN, FEN) are sequences of one-character strings, so that    *)
(* parsing and formatting are computed, not assumed.                        *)
(***************************************************************************)
EXTENDS Integers, Sequences, FiniteSets, TLC

(***************************************************************************)
(* Squares, colors, roles, pieces                                          *)
(***************************************************************************)
White == "white"
Black == "black"
Other(c) == IF c = White THEN Black ELSE White

\* shakmaty numbers squares a1 = 0, b1 = 1, ..., h8 = 63
Squares == 0 .. 63
NoSquare == 0 - 1
FileOf(sq) == sq % 8
RankOf(sq) == sq \div 8
OnBoard(f, r) == f >= 0 /\ f <= 7 /\ r >= 0 /\ r <= 7
Sq(f, r) == r * 8 + f

\* a role is its lower-case English letter; NoRole is Option::None
Roles == {"p", "n", "b", "r", "q", "k"}
NoRole == "-"
Empty == "."
WhitePieces == {"P", "N", "B", "R", "Q", "K"}
BlackPieces == Roles
UpperOf == [c \in Roles |-> CASE c = "p" -> "P" [] c = "n" -> "N" [] c = "b" -> "B"
                              [] c = "r" -> "R" [] c = "q" -> "Q" [] c = "k" -> "K"]
LowerOf == [c \in WhitePieces |-> CASE c = "P" -> "p" [] c = "N" -> "n" [] c = "B" -> "b"
                                    [] c = "R" -> "r" [] c = "Q" -> "q" [] c = "K" -> "k"]
\* Role::from_char accepts both cases
RoleFromChar(ch) == IF ch \in Roles THEN ch
                    ELSE IF ch \in WhitePieces THEN LowerOf[ch] ELSE NoRole
\* a piece is its FEN letter: upper case for White
PieceOf(color, role) == IF color = White THEN UpperOf[role] ELSE role
ColorOfPiece(p) == IF p \in WhitePieces THEN White ELSE Black
RoleOfPiece(p) == IF p \in WhitePieces THEN LowerOf[p] ELSE p
IsPiece(p, color, role) == p = PieceOf(color, role)
IsColor(p, color) == IF color = White THEN p \in WhitePieces ELSE p \in BlackPieces

FileChars == <<"a", "b", "c", "d", "e", "f", "g", "h">>
RankChars == <<"1", "2", "3", "4", "5", "6", "7", "8">>
Digits == <<"0", "1", "2", "3", "4", "5", "6", "7", "8", "9">>
IndexIn(chars, ch) == IF \E i \in 1 .. Len(chars) : chars[i] = ch
                      THEN CHOOSE i \in 1 .. Len(chars) : chars[i] = ch
                      ELSE 0
\* Square::from_ascii on two characters; NoSquare on error
SquareFromChars(fc, rc) ==
    LET f == IndexIn(FileChars, fc)
        r == IndexIn(RankChars, rc)
    IN IF f = 0 \/ r = 0 THEN NoSquare ELSE Sq(f - 1, r - 1)
\* Display of a square
SquareText(sq) == <<FileChars[FileOf(sq) + 1], RankChars[RankOf(sq) + 1]>>

(***************************************************************************)
(* Attacks                                                                 *)
(***************************************************************************)
KnightDeltas == {<<1, 2>>, <<2, 1>>, <<2, 0 - 1>>, <<1, 0 - 2>>,
                 <<0 - 1, 0 - 2>>, <<0 - 2, 0 - 1>>, <<0 - 2, 1>>, <<0 - 1, 2>>}
KingDeltas == {<<1, 0>>, <<1, 1>>, <<0, 1>>, <<0 - 1, 1>>,
               <<0 - 1, 0>>, <<0 - 1, 0 - 1>>, <<0, 0 - 1>>, <<1, 0 - 1>>}
RookDirs == {<<1, 0>>, <<0, 1>>, <<0 - 1, 0>>, <<0, 0 - 1>>}
BishopDirs == {<<1, 1>>, <<0 - 1, 1>>, <<0 - 1, 0 - 1>>, <<1, 0 - 1>>}

\* squares a step piece on sq reaches with the given deltas
StepTargets(sq, deltas) ==
    {Sq(FileOf(sq) + d[1], RankOf(sq) + d[2]) :
        d \in {e \in deltas : OnBoard(FileOf(sq) + e[1], RankOf(sq) + e[2])}}

\* squares seen from (f, r) along (df, dr), up to and including the first
\* occupied square
RECURSIVE Ray(_, _, _, _, _)
Ray(board, f, r, df, dr) ==
    LET nf == f + df
        nr == r + dr
    IN IF ~OnBoard(nf, nr) THEN {}
       ELSE IF board[Sq(nf, nr)] # Empty THEN {Sq(nf, nr)}
       ELSE {Sq(nf, nr)} \cup Ray(board, nf, nr, df, dr)

SlideTargets(board, sq, dirs) ==
    UNION {Ray(board, FileOf(sq), RankOf(sq), d[1], d[2]) : d \in dirs}

\* squares a pawn of the color standing on sq attacks
PawnAttacks(color, sq) ==
    LET dr == IF color = White THEN 1 ELSE 0 - 1
    IN StepTargets(sq, {<<1, dr>>, <<0 - 1, dr>>})

\* squares attacked by the piece of the given role and color on sq
Attacks(board, color, role, sq) ==
    CASE role = "p" -> PawnAttacks(color, sq)
      [] role = "n" -> StepTargets(sq, KnightDeltas)
      [] role = "k" -> StepTargets(sq, KingDeltas)
      [] role = "r" -> SlideTargets(board, sq, RookDirs)
      [] role = "b" -> SlideTargets(board, sq, BishopDirs)
      [] role = "q" -> SlideTargets(board, sq, RookDirs \cup BishopDirs)

\* is sq attacked by a piece of color `by`: look outward from sq
IsAttacked(board, sq, by) ==
    \/ \E t \in StepTargets(sq, KnightDeltas) : board[t] = PieceOf(by, "n")
    \/ \E t \in StepTargets(sq, KingDeltas) : board[t] = PieceOf(by, "k")
    \/ \E t \in PawnAttacks(Other(by), sq) : board[t] = PieceOf(by, "p")
    \/ \E t \in SlideTargets(board, sq, RookDirs) :
          board[t] \in {PieceOf(by, "r"), PieceOf(by, "q")}
    \/ \E t \in SlideTargets(board, sq, BishopDirs) :
          board[t] \in {PieceOf(by, "b"), PieceOf(by, "q")}

KingSquare(board, color) ==
    CHOOSE sq \in Squares : board[sq] = PieceOf(color, "k")

(***************************************************************************)
(* Positions and moves (shakmaty::Chess, shakmaty::Move)                   *)
(***************************************************************************)
\* Move::Normal { role, from, capture, to, promotion }
NormalMove(role, from, capture, to, promotion) ==
    [kind |-> "Normal", role |-> role, from |-> from, capture |-> capture,
     to |-> to, promotion |-> promotion]
\* Move::EnPassant { from, to }
EnPassantMove(from, to) == [kind |-> "EnPassant", from |-> from, to |-> to]
\* Move::Castle { king, rook }
CastleMove(king, rook) == [kind |-> "Castle", king |-> king, rook |-> rook]
\* Move::Put { role, to }
PutMove(role, to) == [kind |-> "Put", role |-> role, to |-> to]

PromotionRoles == {"q", "r", "b", "n"}
BackRank(color) == IF color = White THEN 0 ELSE 7
LastRank(color) == IF color = White THEN 7 ELSE 0
PawnStartRank(color) == IF color = White THEN 1 ELSE 6
Forward(color) == IF color = White THEN 1 ELSE 0 - 1

\* the board after the move, as do_move changes it
BoardAfter(board, color, m) ==
    CASE m.kind = "Normal" ->
           [board EXCEPT ![m.from] = Empty,
                         ![m.to] = IF m.promotion = NoRole
                                   THEN PieceOf(color, m.role)
                                   ELSE PieceOf(color, m.promotion)]
      [] m.kind = "EnPassant" ->
           [board EXCEPT ![Sq(FileOf(m.to), RankOf(m.from))] = Empty,
                         ![m.from] = Empty,
                         ![m.to] = board[m.from]]
      [] m.kind = "Castle" ->
           LET r == RankOf(m.king)
               kingTo == IF m.rook < m.king THEN Sq(2, r) ELSE Sq(6, r)
               rookTo == IF m.rook < m.king THEN Sq(3, r) ELSE Sq(5, r)
               cleared == [board EXCEPT ![m.king] = Empty, ![m.rook] = Empty]
           IN [cleared EXCEPT ![rookTo] = PieceOf(color, "r"),
                              ![kingTo] = PieceOf(color, "k")]
      [] m.kind = "Put" ->
           [board EXCEPT ![m.to] = PieceOf(color, m.role)]

\* pawn moves from a square, before the king-safety test
PawnMoves(pos, from) ==
    LET us == pos.turn
        f == FileOf(from)
        r == RankOf(from)
        r1 == r + Forward(us)
        r2 == r + 2 * Forward(us)
        WithPromotions(capture, to) ==
            IF RankOf(to) = LastRank(us)
            THEN {NormalMove("p", from, capture, to, pr) : pr \in PromotionRoles}
            ELSE {NormalMove("p", from, capture, to, NoRole)}
        pushes ==
            IF OnBoard(f, r1) /\ pos.board[Sq(f, r1)] = Empty
            THEN WithPromotions(NoRole, Sq(f, r1)) \cup
                 (IF r = PawnStartRank(us) /\ pos.board[Sq(f, r2)] = Empty
                  THEN {NormalMove("p", from, NoRole, Sq(f, r2), NoRole)}
                  ELSE {})
            ELSE {}
        captures ==
            UNION {WithPromotions(RoleOfPiece(pos.board[to]), to) :
                     to \in {t \in PawnAttacks(us, from) :
                               IsColor(pos.board[t], Other(us))}}
        enPassant ==
            IF pos.ep_square # NoSquare /\ pos.ep_square \in PawnAttacks(us, from)
            THEN {EnPassantMove(from, pos.ep_square)}
            ELSE {}
    IN pushes \cup captures \cup enPassant

\* moves of the piece on `from`, before the king-safety test
PseudoMoves(pos, from) ==
    LET us == pos.turn
        role == RoleOfPiece(pos.board[from])
    IN IF role = "p" THEN PawnMoves(pos, from)
       ELSE {NormalMove(role, from,
                        IF pos.board[to] = Empty THEN NoRole
                        ELSE RoleOfPiece(pos.board[to]),
                        to, NoRole) :
               to \in {t \in Attacks(pos.board, us, role, from) :
                         ~IsColor(pos.board[t], us)}}

\* the mover's king is not left attacked
IsSafe(pos, m) ==
    LET after == BoardAfter(pos.board, pos.turn, m)
    IN ~IsAttacked(after, KingSquare(after, pos.turn), Other(pos.turn))

\* Position::is_check
is_check(pos) ==
    IsAttacked(pos.board, KingSquare(pos.board, pos.turn), Other(pos.turn))

\* castling moves: right held, path empty, king neither in check nor
\* crossing an attacked square
CastlingMoves(pos) ==
    LET us == pos.turn
        king == KingSquare(pos.board, us)
        r == RankOf(king)
        Between(a, b) == {s \in Squares : RankOf(s) = r /\
                            ((a < s /\ s < b) \/ (b < s /\ s < a))}
        KingPath(rook) == IF rook < king THEN {Sq(3, r), Sq(2, r)}
                          ELSE {Sq(5, r), Sq(6, r)}
    IN {CastleMove(king, rook) :
          rook \in {rk \in pos.castles :
                      /\ RankOf(rk) = BackRank(us)
                      /\ r = BackRank(us)
                      /\ \A s \in Between(king, rk) : pos.board[s] = Empty
                      /\ ~IsAttacked(pos.board, king, Other(us))
                      /\ \A s \in KingPath(rk) :
                            ~IsAttacked(pos.board, s, Other(us))}}

\* Position::legal_moves, as a set (the Vec's order carries no meaning)
generate_legal_moves(pos) ==
    LET own == {s \in Squares : IsColor(pos.board[s], pos.turn)}
        pseudo == UNION {PseudoMoves(pos, s) : s \in own}
    IN {m \in pseudo : IsSafe(pos, m)} \cup CastlingMoves(pos)

\* Position::is_legal: the move is among the legal moves of its own kind
\* (the moves of its piece, or the castling moves)
is_legal(pos, m) ==
    CASE m.kind \in {"Normal", "EnPassant"} ->
           /\ IsColor(pos.board[m.from], pos.turn)
           /\ m \in PseudoMoves(pos, m.from)
           /\ IsSafe(pos, m)
      [] m.kind = "Castle" -> m \in CastlingMoves(pos)
      [] m.kind = "Put" -> FALSE

\* Move::is_zeroing
is_zeroing(m) ==
    \/ m.kind = "Normal" /\ (m.role = "p" \/ m.capture # NoRole)
    \/ m.kind = "EnPassant"
    \/ m.kind = "Put" /\ m.role = "p"

\* Castles::discard_rook / discard_color, as do_move applies them
CastlesAfter(castles, color, m) ==
    CASE m.kind = "Normal" ->
           LET c1 == IF m.role = "k"
                     THEN {s \in castles : RankOf(s) # BackRank(color)}
                     ELSE IF m.role = "r" THEN castles \ {m.from} ELSE castles
           IN IF m.capture = "r" THEN c1 \ {m.to} ELSE c1
      [] m.kind = "Castle" -> {s \in castles : RankOf(s) # BackRank(color)}
      [] OTHER -> castles

\* Position::play_unchecked (do_move)
play_unchecked(pos, m) ==
    LET color == pos.turn
        doublePush == /\ m.kind = "Normal"
                      /\ m.role = "p"
                      /\ RankOf(m.from) = PawnStartRank(color)
                      /\ m.to - m.from = 16 * Forward(color)
    IN [board |-> BoardAfter(pos.board, color, m),
        turn |-> Other(color),
        castles |-> CastlesAfter(pos.castles, color, m),
        ep_square |-> IF doublePush THEN m.from + 8 * Forward(color) ELSE NoSquare,
        halfmoves |-> IF is_zeroing(m) THEN 0 ELSE pos.halfmoves + 1,
        fullmoves |-> IF color = Black THEN pos.fullmoves + 1 ELSE pos.fullmoves]

\* Chess::default(): the standard start position
StartRow == <<"r", "n", "b", "q", "k", "b", "n", "r">>
Chess_default ==
    [board |-> [s \in Squares |->
                  CASE RankOf(s) = 0 -> UpperOf[StartRow[FileOf(s) + 1]]
                    [] RankOf(s) = 1 -> "P"
                    [] RankOf(s) = 6 -> "p"
                    [] RankOf(s) = 7 -> StartRow[FileOf(s) + 1]
                    [] OTHER -> Empty],
     turn |-> White,
     castles |-> {0, 7, 56, 63},
     ep_square |-> NoSquare,
     halfmoves |-> 0,
     fullmoves |-> 1]

(***************************************************************************)
(* UCI text (shakmaty::uci::UciMove)                                       *)
(***************************************************************************)
UciNormal(from, to, promotion) ==
    [kind |-> "Normal", from |-> from, to |-> to, promotion |-> promotion]
UciPut(role, to) == [kind |-> "Put", role |-> role, to |-> to]
UciNull == [kind |-> "Null"]
UciParseError == [kind |-> "ParseUciMoveError"]
IllegalUciMoveError == [kind |-> "IllegalUciMoveError"]

\* str::parse::<UciMove>() (UciMove::from_ascii)
UciMove_parse(text) ==
    IF Len(text) # 4 /\ Len(text) # 5 THEN UciParseError
    ELSE IF text = <<"0", "0", "0", "0">> THEN UciNull
    ELSE LET from == SquareFromChars(text[1], text[2])
             to == SquareFromChars(text[3], text[4])
         IN IF to = NoSquare THEN UciParseError
            ELSE IF text[2] = "@"
            THEN IF Len(text) = 4 /\ RoleFromChar(text[1]) # NoRole
                 THEN UciPut(RoleFromChar(text[1]), to)
                 ELSE UciParseError
            ELSE IF from = NoSquare THEN UciParseError
            ELSE IF Len(text) = 5
            THEN IF RoleFromChar(text[5]) # NoRole
                 THEN UciNormal(from, to, RoleFromChar(text[5]))
                 ELSE UciParseError
            ELSE UciNormal(from, to, NoRole)

\* Display for UciMove (uci.to_string())
UciMove_to_string(uci) ==
    CASE uci.kind = "Normal" ->
           SquareText(uci.from) \o SquareText(uci.to) \o
           (IF uci.promotion = NoRole THEN <<>> ELSE <<uci.promotion>>)
      [] uci.kind = "Put" -> <<UpperOf[uci.role], "@">> \o SquareText(uci.to)
      [] uci.kind = "Null" -> <<"0", "0", "0", "0">>

\* UciMove::to_move: the candidate move, kept only if it is legal
UciMove_to_move(uci, pos) ==
    IF uci.kind = "Null" THEN IllegalUciMoveError
    ELSE IF uci.kind = "Put"
    THEN IF is_legal(pos, PutMove(uci.role, uci.to))
         THEN PutMove(uci.role, uci.to) ELSE IllegalUciMoveError
    ELSE IF pos.board[uci.from] = Empty THEN IllegalUciMoveError
    ELSE LET role == RoleOfPiece(pos.board[uci.from])
             home == Sq(4, BackRank(pos.turn))
             dist == IF uci.to > uci.from THEN uci.to - uci.from
                     ELSE uci.from - uci.to
             candidate ==
                 IF role = "k" /\ uci.to \in pos.castles
                 THEN CastleMove(uci.from, uci.to)
                 ELSE IF /\ role = "k"
                         /\ uci.from = home
                         /\ RankOf(uci.to) = RankOf(uci.from)
                         /\ dist = 2
                 THEN CastleMove(uci.from,
                                 IF FileOf(uci.from) < FileOf(uci.to)
                                 THEN Sq(7, BackRank(pos.turn))
                                 ELSE Sq(0, BackRank(pos.turn)))
                 ELSE IF /\ role = "p"
                         /\ FileOf(uci.from) # FileOf(uci.to)
                         /\ pos.board[uci.to] = Empty
                 THEN EnPassantMove(uci.from, uci.to)
                 ELSE NormalMove(role, uci.from,
                                 IF pos.board[uci.to] = Empty THEN NoRole
                                 ELSE RoleOfPiece(pos.board[uci.to]),
                                 uci.to, uci.promotion)
         IN IF uci.promotion # NoRole /\ role # "p" THEN IllegalUciMoveError
            ELSE IF is_legal(pos, candidate) THEN candidate
            ELSE IllegalUciMoveError

\* Move::to_uci(CastlingMode::Standard).to_string()
Move_to_uci(m) ==
    CASE m.kind = "Normal" -> UciMove_to_string(UciNormal(m.from, m.to, m.promotion))
      [] m.kind = "EnPassant" -> UciMove_to_string(UciNormal(m.from, m.to, NoRole))
      [] m.kind = "Castle" ->
           UciMove_to_string(UciNormal(m.king,
                                       IF m.rook < m.king THEN Sq(2, RankOf(m.king))
                                       ELSE Sq(6, RankOf(m.king)),
                                       NoRole))
      [] m.kind = "Put" -> UciMove_to_string(UciPut(m.role, m.to))

(***************************************************************************)
(* FEN text: decoding (shakmaty::fen::Fen, Fen::into_position)             *)
(***************************************************************************)
\* value of a decimal text; -1 unless it is a non-empty digit sequence
RECURSIVE DecValue(_, _)
DecValue(chars, acc) ==
    IF chars = <<>> THEN acc
    ELSE IF IndexIn(Digits, Head(chars)) = 0 THEN 0 - 1
    ELSE DecValue(Tail(chars), acc * 10 + IndexIn(Digits, Head(chars)) - 1)
ParseNat(chars) == IF chars = <<>> THEN 0 - 1 ELSE DecValue(chars, 0)

\* the fields of a text separated by sep
RECURSIVE SplitBy(_, _)
SplitBy(text, sep) ==
    IF \A i \in 1 .. Len(text) : text[i] # sep THEN <<text>>
    ELSE LET k == CHOOSE i \in 1 .. Len(text) :
                    text[i] = sep /\ \A j \in 1 .. (i - 1) : text[j] # sep
         IN <<SubSeq(text, 1, k - 1)>> \o SplitBy(SubSeq(text, k + 1, Len(text)), sep)

\* one rank of a board field as eight pieces; <<>> stands for an error
RECURSIVE ParseRow(_)
ParseRow(chars) ==
    IF chars = <<>> THEN <<>>
    ELSE LET ch == Head(chars)
             d == IndexIn(Digits, ch) - 1
         IN IF ch \in WhitePieces \cup BlackPieces
            THEN <<ch>> \o ParseRow(Tail(chars))
            ELSE IF d >= 1 /\ d <= 8
            THEN [i \in 1 .. d |-> Empty] \o ParseRow(Tail(chars))
            ELSE [i \in 1 .. 9 |-> Empty]

FenError == [ok |-> FALSE]
FenOk(pos) == [ok |-> TRUE, pos |-> pos]

\* str::parse::<Fen>(): the setup named by the text, or an error
Fen_parse(text) ==
    LET parts == SplitBy(text, " ")
        n == Len(parts)
        rows == SplitBy(parts[1], "/")
        cells == [i \in 1 .. Len(rows) |-> ParseRow(rows[i])]
        boardOk == Len(rows) = 8 /\ \A i \in 1 .. 8 : Len(cells[i]) = 8
        turnOk == n < 2 \/ parts[2] \in {<<"w">>, <<"b">>}
        castlingOk == n < 3 \/ parts[3] = <<"-">> \/
                      (parts[3] # <<>> /\ \A i \in 1 .. Len(parts[3]) :
                                             parts[3][i] \in {"K", "Q", "k", "q"})
        epOk == n < 4 \/ parts[4] = <<"-">> \/
                (Len(parts[4]) = 2 /\
                 SquareFromChars(parts[4][1], parts[4][2]) # NoSquare)
        halfOk == n < 5 \/ ParseNat(parts[5]) >= 0
        fullOk == n < 6 \/ ParseNat(parts[6]) >= 0
        Right(ch) == CASE ch = "K" -> 7 [] ch = "Q" -> 0 [] ch = "k" -> 63 [] ch = "q" -> 56
    IN IF n > 6 \/ ~(boardOk /\ turnOk /\ castlingOk /\ epOk /\ halfOk /\ fullOk)
       THEN FenError
       ELSE FenOk(
         [board |-> [s \in Squares |-> cells[8 - RankOf(s)][FileOf(s) + 1]],
          turn |-> IF n >= 2 /\ parts[2] = <<"b">> THEN Black ELSE White,
          castles |-> IF n < 3 \/ parts[3] = <<"-">> THEN {}
                      ELSE {Right(parts[3][i]) : i \in 1 .. Len(parts[3])},
          ep_square |-> IF n < 4 \/ parts[4] = <<"-">> THEN NoSquare
                        ELSE SquareFromChars(parts[4][1], parts[4][2]),
          halfmoves |-> IF n < 5 THEN 0 ELSE ParseNat(parts[5]),
          fullmoves |-> IF n < 6 \/ ParseNat(parts[6]) = 0 THEN 1
                        ELSE ParseNat(parts[6])])

\* Fen::into_position(CastlingMode::Standard): the setup is a position only
\* if it has one king a side, no pawn on a back rank, consistent castling
\* rights and en passant square, and the side not to move is not in check
Fen_into_position(setup) ==
    LET b == setup.board
        Kings(c) == {s \in Squares : b[s] = PieceOf(c, "k")}
        kingsOk == \A c \in {White, Black} : Cardinality(Kings(c)) = 1
        pawnsOk == \A s \in Squares :
                      RankOf(s) \in {0, 7} => b[s] \notin {"P", "p"}
        castlesOk == \A rk \in setup.castles :
                        LET c == IF RankOf(rk) = 0 THEN White ELSE Black
                        IN b[rk] = PieceOf(c, "r") /\ b[Sq(4, RankOf(rk))] = PieceOf(c, "k")
        ep == setup.ep_square
        them == Other(setup.turn)
        epOk == ep = NoSquare \/
                  (/\ RankOf(ep) = (IF setup.turn = White THEN 5 ELSE 2)
                   /\ b[ep] = Empty
                   /\ b[ep - 8 * Forward(setup.turn)] = PieceOf(them, "p")
                   /\ b[ep + 8 * Forward(setup.turn)] = Empty)
    IN IF ~(kingsOk /\ pawnsOk /\ castlesOk /\ epOk) THEN FenError
       ELSE IF IsAttacked(b, KingSquare(b, them), setup.turn) THEN FenError
       ELSE FenOk(setup)


(***************************************************************************)
(* The workloads: what the clients send                                     *)
(***************************************************************************)
\* longest history a client drives a session to
MaxHistory == 3

\* request bodies the clients send, by workload: games from the standard
\* start position, games from a FEN, or games from a FEN one move away from
\* the end of the game
Workloads == {"start", "fen"}
Endings == {"endings"}
AllWorkloads == Workloads \cup Endings
\* 1n5k/P7/6K1/8/8/8/8/R4R2 w - - 149 80: one halfmove short of the 150th
\* halfmove without a capture or a pawn move
CustomFen == <<"1", "n", "5", "k", "/", "P", "7", "/", "6", "K", "1", "/", "8", "/", "8", "/", "8", "/", "8", "/", "R", "4", "R", "2", " ", "w", " ", "-", " ", "-", " ", "1", "4", "9", " ", "8", "0">>
\* 7k/5K2/8/8/8/8/8/3B4 w - - 0 1: king and bishop against king
EndingFen == <<"7", "k", "/", "5", "K", "2", "/", "8", "/", "8", "/", "8", "/", "8", "/", "8", "/", "3", "B", "4", " ", "w", " ", "-", " ", "-", " ", "0", " ", "1">>
UciInputs ==
    [wl \in AllWorkloads |->
       IF wl = "start"
       THEN { <<"e", "2", "e", "4">>,    \* e2e4
              <<"e", "2", "e", "5">>,    \* e2e5
              <<"e", "9", "e", "4">> }   \* e9e4: not UCI
       ELSE IF wl = "fen"
       THEN { <<"a", "7", "b", "8", "Q">>,    \* a7b8Q: promotion, upper-case letter
              <<"a", "1", "d", "1">>,    \* a1d1
              <<"h", "8", "g", "8">> }   \* h8g8
       ELSE { <<"d", "1", "c", "2">>,    \* d1c2: stalemate
              <<"d", "1", "e", "2">>,    \* d1e2
              <<"h", "8", "h", "7">> }]  \* h8h7
FenInputs ==
    [wl \in AllWorkloads |->
       IF wl = "start"
       THEN { <<"c", "h", "e", "s", "s">> }   \* not FEN
       ELSE IF wl = "endings"
       THEN { EndingFen }
       ELSE { CustomFen,
              <<"1", "n", "5", "k", "/", "P", "7", "/", "8", "/", "8", "/", "8", "/", "8", "/", "8", "/", "8", " ", "w", " ", "-", " ", "-", " ", "0", " ", "1">> }]  \* no white king

\* a request without a FEN refused instead of given Chess::default()
position_of_request_needs_fen(fen) ==
    IF fen = <<>> THEN FenError
    ELSE IF Fen_parse(fen[1]).ok THEN Fen_into_position(Fen_parse(fen[1]).pos)
    ELSE FenError

\* lines 174-183: the position a create request starts from: the parsed
\* FEN made into a position, Chess::default() without one, or an error
position_of_request(fen) ==
    IF fen = <<>> THEN FenOk(Chess_default)
    ELSE IF Fen_parse(fen[1]).ok THEN Fen_into_position(Fen_parse(fen[1]).pos)
    ELSE FenError

\* the create requests the clients send, and position_of_request of each
AllFens == UNION {FenInputs[wl] : wl \in AllWorkloads}
CreateInputs == {<<>>} \cup {<<f>> : f \in AllFens}
InitialPosition == [fen \in CreateInputs |-> position_of_request(fen)]
\* UciMove_parse of each text the clients send
AllUci == UNION {UciInputs[wl] : wl \in AllWorkloads}
ParsedUci == [text \in AllUci |-> UciMove_parse(text)]


\* the positions the workloads reach: from each initial position, every
\* legal move among the texts the clients send, MaxHistory deep
RECURSIVE PositionsWithin(_, _)
PositionsWithin(from, n) ==
    IF n = 0 THEN from
    ELSE PositionsWithin(
           from \cup {play_unchecked(p, UciMove_to_move(ParsedUci[t], p)) :
                        <<p, t>> \in {pt \in from \X AllUci :
                                        /\ ParsedUci[pt[2]] # UciParseError
                                        /\ UciMove_to_move(ParsedUci[pt[2]], pt[1])
                                             # IllegalUciMoveError}},
           n - 1)
Positions ==
    PositionsWithin({InitialPosition[f].pos : f \in {g \in CreateInputs :
                                                     InitialPosition[g].ok}},
                    MaxHistory)

\* Position::legal_moves: generate_legal_moves, computed once for each of
\* the positions above
LegalMovesOf == [p \in Positions |-> generate_legal_moves(p)]
legal_moves(pos) ==
    IF pos \in Positions THEN LegalMovesOf[pos] ELSE generate_legal_moves(pos)

(***************************************************************************)
(* SAN text (shakmaty::san::San)                                           *)
(***************************************************************************)
\* Position::san_candidates(role, to)
san_candidates(pos, role, to) ==
    {c \in generate_legal_moves(pos) : c.kind = "Normal" /\ c.role = role /\ c.to = to}

\* San::from_move(pos, m).to_string(): disambiguation against the other
\* legal moves of the same role to the same square; no check or mate suffix
San_from_move(pos, m) ==
    CASE m.kind = "Normal" /\ m.role = "p" ->
           (IF m.capture # NoRole THEN <<FileChars[FileOf(m.from) + 1], "x">> ELSE <<>>)
           \o SquareText(m.to)
           \o (IF m.promotion # NoRole THEN <<"=", UpperOf[m.promotion]>> ELSE <<>>)
      [] m.kind = "Normal" /\ m.role # "p" ->
           LET others == {c \in san_candidates(pos, m.role, m.to) : c.from # m.from}
               byFile == \E c \in others :
                            \/ RankOf(m.from) = RankOf(c.from)
                            \/ FileOf(m.from) # FileOf(c.from)
               byRank == \E c \in others :
                            /\ RankOf(m.from) # RankOf(c.from)
                            /\ FileOf(m.from) = FileOf(c.from)
           IN <<UpperOf[m.role]>>
              \o (IF byFile THEN <<FileChars[FileOf(m.from) + 1]>> ELSE <<>>)
              \o (IF byRank THEN <<RankChars[RankOf(m.from) + 1]>> ELSE <<>>)
              \o (IF m.capture # NoRole THEN <<"x">> ELSE <<>>)
              \o SquareText(m.to)
      [] m.kind = "EnPassant" ->
           <<FileChars[FileOf(m.from) + 1], "x">> \o SquareText(m.to)
      [] m.kind = "Castle" ->
           IF m.rook < m.king THEN <<"O", "-", "O", "-", "O">> ELSE <<"O", "-", "O">>
      [] m.kind = "Put" ->
           (IF m.role = "p" THEN <<>> ELSE <<UpperOf[m.role]>>)
           \o <<"@">> \o SquareText(m.to)

(***************************************************************************)
(* FEN text: encoding (shakmaty::fen::Fen::from_position)                  *)
(***************************************************************************)
\* decimal text of a natural number
RECURSIVE DecText(_)
DecText(n) == IF n < 10 THEN <<Digits[n + 1]>>
              ELSE DecText(n \div 10) \o <<Digits[(n % 10) + 1]>>

\* one rank of the board field, files a to h
RECURSIVE RowText(_, _, _, _)
RowText(board, r, f, run) ==
    LET flush == IF run > 0 THEN <<Digits[run + 1]>> ELSE <<>>
    IN IF f > 7 THEN flush
       ELSE IF board[Sq(f, r)] = Empty THEN RowText(board, r, f + 1, run + 1)
       ELSE flush \o <<board[Sq(f, r)]>> \o RowText(board, r, f + 1, 0)

\* the board field, rank 8 first
RECURSIVE BoardText(_, _)
BoardText(board, r) ==
    IF r = 0 THEN RowText(board, 0, 0, 0)
    ELSE RowText(board, r, 0, 0) \o <<"/">> \o BoardText(board, r - 1)

CastlesText(castles) ==
    IF castles = {} THEN <<"-">>
    ELSE (IF 7 \in castles THEN <<"K">> ELSE <<>>)
         \o (IF 0 \in castles THEN <<"Q">> ELSE <<>>)
         \o (IF 63 \in castles THEN <<"k">> ELSE <<>>)
         \o (IF 56 \in castles THEN <<"q">> ELSE <<>>)

\* Position::ep_square(EnPassantMode::Legal): disclosed only if an en
\* passant capture is legal
legal_ep_square(pos) ==
    IF pos.ep_square # NoSquare /\ \E m \in generate_legal_moves(pos) : m.kind = "EnPassant"
    THEN pos.ep_square ELSE NoSquare

\* fen_of: Fen::from_position(pos, EnPassantMode::Legal).to_string()
fen_of(pos) ==
    BoardText(pos.board, 7)
    \o <<" ", IF pos.turn = White THEN "w" ELSE "b", " ">>
    \o CastlesText(pos.castles)
    \o <<" ">>
    \o (IF legal_ep_square(pos) = NoSquare THEN <<"-">>
        ELSE SquareText(legal_ep_square(pos)))
    \o <<" ">> \o DecText(pos.halfmoves)
    \o <<" ">> \o DecText(pos.fullmoves)

InitialFen == [fen \in CreateInputs |->
                 IF InitialPosition[fen].ok THEN fen_of(InitialPosition[fen].pos)
                 ELSE <<>>]


(***************************************************************************)
(* Outcome and status                                                      *)
(***************************************************************************)
\* Chess::has_insufficient_material(color)
has_insufficient_material(pos, color) ==
    LET b == pos.board
        Of(c) == {s \in Squares : IsColor(b[s], c)}
        Dark(s) == (FileOf(s) + RankOf(s)) % 2 = 0
        bishops == {s \in Squares : b[s] \in {"B", "b"}}
    IN IF \E s \in Of(color) : RoleOfPiece(b[s]) \in {"p", "r", "q"} THEN FALSE
       ELSE IF \E s \in Of(color) : RoleOfPiece(b[s]) = "n"
       THEN /\ Cardinality(Of(color)) <= 2
            /\ \A s \in Of(Other(color)) : RoleOfPiece(b[s]) \in {"k", "q"}
       ELSE IF \E s \in Of(color) : RoleOfPiece(b[s]) = "b"
       THEN /\ ((\A s \in bishops : Dark(s)) \/ (\A s \in bishops : ~Dark(s)))
            /\ \A s \in Squares : b[s] \notin {"P", "p", "N", "n"}
       ELSE TRUE

\* Position::is_insufficient_material
is_insufficient_material(pos) ==
    has_insufficient_material(pos, White) /\ has_insufficient_material(pos, Black)

\* Position::is_stalemate
is_stalemate(pos) == ~is_check(pos) /\ generate_legal_moves(pos) = {}

\* Position::outcome
outcome(pos) ==
    IF generate_legal_moves(pos) = {}
    THEN IF is_check(pos)
         THEN [kind |-> "Decisive", winner |-> Other(pos.turn)]
         ELSE [kind |-> "Draw"]
    ELSE IF is_insufficient_material(pos) THEN [kind |-> "Draw"]
    ELSE [kind |-> "Unknown"]

\* side_to_move: pos.turn()
side_to_move(pos) == pos.turn

\* status_of with the winner's colors crossed over
status_of_winner_crossed(pos) ==
    LET o == outcome(pos)
    IN CASE o.kind = "Decisive" -> [status |-> "checkmate", winner |-> Other(o.winner)]
         [] o.kind = "Draw" ->
              IF is_stalemate(pos) THEN [status |-> "stalemate"]
              ELSE [status |-> "draw"]
         [] o.kind = "Unknown" ->
              [status |-> "ongoing", to_move |-> side_to_move(pos),
               in_check |-> is_check(pos)]

\* status_of without the stalemate test: every drawn outcome is a draw
status_of_draw_only(pos) ==
    LET o == outcome(pos)
    IN CASE o.kind = "Decisive" -> [status |-> "checkmate", winner |-> o.winner]
         [] o.kind = "Draw" -> [status |-> "draw"]
         [] o.kind = "Unknown" ->
              [status |-> "ongoing", to_move |-> side_to_move(pos),
               in_check |-> is_check(pos)]

\* status_of
status_of(pos) ==
    LET o == outcome(pos)
    IN CASE o.kind = "Decisive" -> [status |-> "checkmate", winner |-> o.winner]
         [] o.kind = "Draw" ->
              IF is_stalemate(pos) THEN [status |-> "stalemate"]
              ELSE [status |-> "draw"]
         [] o.kind = "Unknown" ->
              [status |-> "ongoing", to_move |-> side_to_move(pos),
               in_check |-> is_check(pos)]

\* legal_moves_uci, as a set of UCI texts
legal_moves_uci(pos) == {Move_to_uci(m) : m \in legal_moves(pos)}

(***************************************************************************)
(* The engine's answers for the positions the clients' requests reach, each *)
(* computed once: what a handler gets from fen_of, status_of,              *)
(* uci.to_move, San::from_move and play_unchecked on a stored position      *)
(***************************************************************************)
ParsedUcis == {ParsedUci[t] : t \in AllUci} \ {UciParseError}
FenOf == [p \in Positions |-> fen_of(p)]
StatusOf == [p \in Positions |-> status_of(p)]
ToMoveOf == [p \in Positions |-> [u \in ParsedUcis |-> UciMove_to_move(u, p)]]
MovesOf(p) == {ToMoveOf[p][u] : u \in ParsedUcis} \ {IllegalUciMoveError}
SanOf == [p \in Positions |-> [m \in MovesOf(p) |-> San_from_move(p, m)]]
PlayOf == [p \in Positions |-> [m \in MovesOf(p) |-> play_unchecked(p, m)]]

(***************************************************************************)
(* The service: requests, registry, lock                                   *)
(***************************************************************************)
Workers == {"w1", "w2"}
NoWorker == "none"
Ids == {"id1", "id2"}
NoId == "none"

VARIABLES
    workload,  \* which requests the clients of this run send
    store,     \* HashMap<Uuid, GameEntry>: a function on the ids present
    lock,      \* the RwLock: [writer, readers, waiters]; a waiter is [who, mode]
    issued,    \* the ids Uuid::new_v4 has returned
    pc,        \* where each worker is in its handler
    req,       \* the request each worker is serving
    loc,       \* the handler's local variables
    resp,      \* the response each worker returned last
    initial,   \* history: for each id present, the position it was created with
    deleted,   \* history: the ids a delete_game has removed
    before     \* history: the registry as each worker found it when it was
               \* granted the lock

vars == <<workload, store, lock, issued, pc, req, loc, resp, initial, deleted, before>>

\* ApiError::into_response: the HTTP status of each error
into_response(error) ==
    [ok |-> FALSE, error |-> error,
     code |-> CASE error = "NotFound" -> 404
                [] error = "BadRequest" -> 400
                [] error = "IllegalMove" -> 422
                [] error = "Internal" -> 500]
Ok(code, body) == [ok |-> TRUE, code |-> code, body |-> body]
NoResponse == [ok |-> FALSE, error |-> "none", code |-> 0]
NoRequest == [op |-> "none", id |-> NoId, body |-> <<>>]
NoLocals == [none |-> TRUE]

\* GameEntry { pos, history_uci: Vec::new(), history_san: Vec::new() }
GameEntry(pos) == [pos |-> pos, history_uci |-> <<>>, history_san |-> <<>>]

\* HashMap::insert and HashMap::remove
Insert(map, k, v) == [i \in DOMAIN map \cup {k} |-> IF i = k THEN v ELSE map[i]]
Remove(map, k) == [i \in DOMAIN map \ {k} |-> map[i]]

\* read() granted although a writer holds the lock or waits for it
CanRead_ignores_writer(l) == TRUE
\* write() granted although another writer holds the lock
CanWrite_ignores_writer(l) == l.readers = {} /\ l.waiters = <<>>

\* write() granted although readers hold the lock
CanWrite_ignores_readers(l) == l.writer = NoWorker /\ l.waiters = <<>>

\* tokio's RwLock is a semaphore with a first-in first-out queue of the
\* tasks whose read().await or write().await is pending, each entry with
\* the kind of guard it asked for.  A task that asks is granted at once a
\* write when nobody holds the lock and nobody is queued, a read when no
\* writer holds the lock and no writer is queued; otherwise it joins the end
\* of the queue.
CanWrite(l) == l.writer = NoWorker /\ l.readers = {} /\ l.waiters = <<>>
CanRead(l) ==
    /\ l.writer = NoWorker
    /\ \A i \in 1 .. Len(l.waiters) : l.waiters[i].mode # "write"
Unlocked == [writer |-> NoWorker, readers |-> {}, waiters |-> <<>>]
Holds(l, w) == l.writer = w \/ w \in l.readers
Queued(l, w) == \E i \in 1 .. Len(l.waiters) : l.waiters[i].who = w
\* the lock after w asks for it, or is polled again while it waits or after
\* it was granted: held by w if granted, with w in the queue if not
write(l, w) ==
    IF Holds(l, w) \/ Queued(l, w) THEN l
    ELSE IF CanWrite(l) THEN [l EXCEPT !.writer = w]
    ELSE [l EXCEPT !.waiters = Append(@, [who |-> w, mode |-> "write"])]
read(l, w) ==
    IF Holds(l, w) \/ Queued(l, w) THEN l
    ELSE IF CanRead(l) THEN [l EXCEPT !.readers = @ \cup {w}]
    ELSE [l EXCEPT !.waiters = Append(@, [who |-> w, mode |-> "read"])]
\* a dropped guard's share of the lock goes to the queue at once, in order
\* and before the tasks in it are polled again: the readers at the head are
\* granted together, a writer at the head when nobody holds the lock, and
\* nothing passes a writer that still waits
RECURSIVE Wake(_)
Wake(l) ==
    IF l.waiters = <<>> \/ l.writer # NoWorker THEN l
    ELSE LET h == Head(l.waiters)
         IN IF h.mode = "read"
            THEN Wake([l EXCEPT !.readers = @ \cup {h.who},
                                !.waiters = Tail(@)])
            ELSE IF l.readers = {}
            THEN [l EXCEPT !.writer = h.who, !.waiters = Tail(@)]
            ELSE l
\* drop that leaves a read guard's share of the lock behind
drop_keeps_readers(l, w) ==
    Wake([l EXCEPT !.writer = IF @ = w THEN NoWorker ELSE @])
\* the lock after w drops its guard
drop(l, w) == Wake([l EXCEPT !.writer = IF @ = w THEN NoWorker ELSE @,
                             !.readers = @ \ {w}])

\* game_response
game_response(id, entry) ==
    [id |-> id,
     fen |-> FenOf[entry.pos],
     legal_moves |-> legal_moves_uci(entry.pos),
     moves_uci |-> entry.history_uci,
     moves_san |-> entry.history_san,
     status |-> StatusOf[entry.pos]]

NoStore == [i \in {} |-> GameEntry(Chess_default)]

Start(workloads) ==
    /\ workload \in workloads
    /\ store = NoStore
    /\ lock = Unlocked
    /\ issued = {}
    /\ pc = [w \in Workers |-> "idle"]
    /\ req = [w \in Workers |-> NoRequest]
    /\ loc = [w \in Workers |-> NoLocals]
    /\ resp = [w \in Workers |-> NoResponse]
    /\ initial = [i \in {} |-> Chess_default]
    /\ deleted = {}
    /\ before = [w \in Workers |-> NoStore]

Init == Start(Workloads)
InitEndings == Start(Endings)

Free(w) == pc[w] \in {"idle", "done"}

\* w asks for the lock: it goes on holding it if it is granted, and waits
\* otherwise
Ask(w, asked, waiting, holding) ==
    /\ lock' = asked
    /\ pc' = [pc EXCEPT ![w] = IF Holds(asked, w) THEN holding ELSE waiting]
    /\ before' = [before EXCEPT ![w] = IF Holds(asked, w) THEN store ELSE NoStore]

\* a worker takes a request with a path id and reaches the lock
Arrive(w, op, id, body, asked, waiting, holding) ==
    /\ Free(w)
    /\ req' = [req EXCEPT ![w] = [op |-> op, id |-> id, body |-> body]]
    /\ loc' = [loc EXCEPT ![w] = NoLocals]
    /\ resp' = [resp EXCEPT ![w] = NoResponse]
    /\ Ask(w, asked, waiting, holding)
    /\ UNCHANGED <<workload, store, issued, initial, deleted>>

\* a waiting worker is granted the lock
Acquire(w, asked, waiting, holding) ==
    /\ pc[w] = waiting
    /\ Holds(asked, w)
    /\ Ask(w, asked, waiting, holding)
    /\ UNCHANGED <<workload, store, issued, req, loc, resp, initial, deleted>>

\* a handler returns: the response is set and its lock guard, if any, dropped
Return(w, r) ==
    /\ pc' = [pc EXCEPT ![w] = "done"]
    /\ loc' = [loc EXCEPT ![w] = NoLocals]
    /\ resp' = [resp EXCEPT ![w] = r]
    /\ lock' = drop(lock, w)
    /\ before' = [before EXCEPT ![w] = NoStore]

(***************************************************************************)
(* create_game                                                             *)
(***************************************************************************)
\* an id generator that may return an id again
Uuid_may_repeat == Ids

\* Uuid::new_v4(): an id never returned before
Uuid_new_v4 == Ids \ issued

\* the create requests of a workload
CreateRequests(wl) ==
    (IF wl = "start" THEN {<<>>} ELSE {}) \cup {<<f>> : f \in FenInputs[wl]}

\* line 171: the request arrives and its id is drawn
create_game_begin(w, fen) ==
    /\ Free(w)
    /\ \E id \in Uuid_new_v4 :
         /\ issued' = issued \cup {id}
         /\ loc' = [loc EXCEPT ![w] = [id |-> id]]
    /\ req' = [req EXCEPT ![w] = [op |-> "create", id |-> NoId, body |-> fen]]
    /\ resp' = [resp EXCEPT ![w] = NoResponse]
    /\ pc' = [pc EXCEPT ![w] = "create_parse"]
    /\ UNCHANGED <<workload, store, lock, initial, deleted, before>>

\* create_game_parse with the entry inserted before the FEN is decoded
create_game_parse_inserts_first(w) ==
    /\ pc[w] = "create_parse"
    /\ store' = Insert(store, loc[w].id, GameEntry(Chess_default))
    /\ initial' = Insert(initial, loc[w].id, Chess_default)
    /\ LET made == InitialPosition[req[w].body]
       IN IF made.ok
          THEN /\ loc' = [loc EXCEPT ![w] =
                            [id |-> loc[w].id, fen |-> InitialFen[req[w].body],
                             entry |-> GameEntry(made.pos)]]
               /\ Ask(w, write(lock, w), "create_lock", "create_insert")
               /\ UNCHANGED resp
          ELSE Return(w, into_response("BadRequest"))
    /\ UNCHANGED <<workload, issued, req, deleted>>

\* lines 174-193: the position (from the FEN if one is given), its FEN, the
\* entry, then the write lock is asked for; an invalid FEN returns 400
create_game_parse(w) ==
    /\ pc[w] = "create_parse"
    /\ LET made == InitialPosition[req[w].body]
       IN IF made.ok
          THEN /\ loc' = [loc EXCEPT ![w] =
                            [id |-> loc[w].id, fen |-> InitialFen[req[w].body],
                             entry |-> GameEntry(made.pos)]]
               /\ Ask(w, write(lock, w), "create_lock", "create_insert")
               /\ UNCHANGED resp
          ELSE Return(w, into_response("BadRequest"))
    /\ UNCHANGED <<workload, store, issued, req, initial, deleted>>

\* line 193: state.store.write().await, when it had to wait
create_game_acquire(w) == Acquire(w, write(lock, w), "create_lock", "create_insert")

\* lines 193-195: insert under the write guard, which the statement drops
create_game_insert(w) ==
    /\ pc[w] = "create_insert"
    /\ store' = Insert(store, loc[w].id, loc[w].entry)
    /\ initial' = Insert(initial, loc[w].id, loc[w].entry.pos)
    /\ Return(w, Ok(200, [id |-> loc[w].id, fen |-> loc[w].fen]))
    /\ UNCHANGED <<workload, issued, req, deleted>>

(***************************************************************************)
(* get_game, list_legal_moves, delete_game                                 *)
(***************************************************************************)
get_game_request(w, id) ==
    Arrive(w, "get", id, <<>>, read(lock, w), "get_lock", "get_read")
get_game_acquire(w) == Acquire(w, read(lock, w), "get_lock", "get_read")
\* lines 203-205
get_game_respond(w) ==
    /\ pc[w] = "get_read"
    /\ IF req[w].id \in DOMAIN store
       THEN Return(w, Ok(200, game_response(req[w].id, store[req[w].id])))
       ELSE Return(w, into_response("NotFound"))
    /\ UNCHANGED <<workload, store, issued, req, initial, deleted>>

list_legal_moves_request(w, id) ==
    Arrive(w, "list", id, <<>>, read(lock, w), "list_lock", "list_read")
list_legal_moves_acquire(w) == Acquire(w, read(lock, w), "list_lock", "list_read")
\* lines 225-228
list_legal_moves_respond(w) ==
    /\ pc[w] = "list_read"
    /\ IF req[w].id \in DOMAIN store
       THEN Return(w, Ok(200, legal_moves_uci(store[req[w].id].pos)))
       ELSE Return(w, into_response("NotFound"))
    /\ UNCHANGED <<workload, store, issued, req, initial, deleted>>

delete_game_request(w, id) ==
    Arrive(w, "delete", id, <<>>, write(lock, w), "delete_lock", "delete_remove")
delete_game_acquire(w) == Acquire(w, write(lock, w), "delete_lock", "delete_remove")
\* delete_game_remove answering 204 without removing the entry
delete_game_remove_keeps(w) ==
    /\ pc[w] = "delete_remove"
    /\ IF req[w].id \in DOMAIN store
       THEN /\ deleted' = deleted \cup {req[w].id}
            /\ Return(w, Ok(204, <<>>))
       ELSE /\ UNCHANGED deleted
            /\ Return(w, into_response("NotFound"))
    /\ UNCHANGED <<workload, store, initial, issued, req>>

delete_game_remove_clears(w) ==
    /\ pc[w] = "delete_remove"
    /\ IF req[w].id \in DOMAIN store
       THEN /\ store' = NoStore
            /\ initial' = Remove(initial, req[w].id)
            /\ deleted' = deleted \cup {req[w].id}
            /\ Return(w, Ok(204, <<>>))
       ELSE /\ UNCHANGED <<store, initial, deleted>>
            /\ Return(w, into_response("NotFound"))
    /\ UNCHANGED <<workload, issued, req>>

\* lines 213-217
delete_game_remove(w) ==
    /\ pc[w] = "delete_remove"
    /\ IF req[w].id \in DOMAIN store
       THEN /\ store' = Remove(store, req[w].id)
            /\ initial' = Remove(initial, req[w].id)
            /\ deleted' = deleted \cup {req[w].id}
            /\ Return(w, Ok(204, <<>>))
       ELSE /\ UNCHANGED <<store, initial, deleted>>
            /\ Return(w, into_response("NotFound"))
    /\ UNCHANGED <<workload, issued, req>>

(***************************************************************************)
(* apply_move                                                              *)
(***************************************************************************)
\* requests in flight that may still lengthen the history of id
Pending(id) == {v \in Workers : ~Free(v) /\ req[v].op = "apply" /\ req[v].id = id}

apply_move_request(w, id, uci) ==
    /\ id \in DOMAIN store =>
          Len(store[id].history_uci) + Cardinality(Pending(id)) < MaxHistory
    /\ Arrive(w, "apply", id, uci, write(lock, w), "apply_lock", "apply_validate")

apply_move_acquire(w) == Acquire(w, write(lock, w), "apply_lock", "apply_validate")

\* apply_move_validate with the UCI syntax checked before the lookup
apply_move_validate_parse_first(w) ==
    /\ pc[w] = "apply_validate"
    /\ LET id == req[w].id
           uci == ParsedUci[req[w].body]
           m == ToMoveOf[store[id].pos][uci]
       IN IF uci = UciParseError
          THEN Return(w, into_response("BadRequest"))
          ELSE IF id \notin DOMAIN store
          THEN Return(w, into_response("NotFound"))
          ELSE IF m = IllegalUciMoveError
          THEN Return(w, into_response("IllegalMove"))
          ELSE /\ pc' = [pc EXCEPT ![w] = "apply_play"]
               /\ loc' = [loc EXCEPT ![w] =
                            [uci |-> uci, m |-> m,
                             san |-> SanOf[store[id].pos][m]]]
               /\ UNCHANGED <<lock, resp, before>>
    /\ UNCHANGED <<workload, store, issued, req, initial, deleted>>

\* apply_move_validate with the SAN taken from the position after the move
apply_move_validate_san_after(w) ==
    /\ pc[w] = "apply_validate"
    /\ LET id == req[w].id
           uci == ParsedUci[req[w].body]
           m == ToMoveOf[store[id].pos][uci]
       IN IF id \notin DOMAIN store
          THEN Return(w, into_response("NotFound"))
          ELSE IF uci = UciParseError
          THEN Return(w, into_response("BadRequest"))
          ELSE IF m = IllegalUciMoveError
          THEN Return(w, into_response("IllegalMove"))
          ELSE /\ pc' = [pc EXCEPT ![w] = "apply_play"]
               /\ loc' = [loc EXCEPT ![w] =
                            [uci |-> uci, m |-> m,
                             san |-> San_from_move(play_unchecked(store[id].pos, m), m)]]
               /\ UNCHANGED <<lock, resp, before>>
    /\ UNCHANGED <<workload, store, issued, req, initial, deleted>>

\* apply_move_validate with the UCI text pushed onto the history before the
\* move is resolved against the position
apply_move_validate_push_first(w) ==
    /\ pc[w] = "apply_validate"
    /\ LET id == req[w].id
           uci == ParsedUci[req[w].body]
           m == ToMoveOf[store[id].pos][uci]
       IN IF id \notin DOMAIN store
          THEN Return(w, into_response("NotFound")) /\ UNCHANGED store
          ELSE IF uci = UciParseError
          THEN Return(w, into_response("BadRequest")) /\ UNCHANGED store
          ELSE /\ store' = [store EXCEPT ![id].history_uci =
                                           Append(@, UciMove_to_string(uci))]
               /\ IF m = IllegalUciMoveError
                  THEN Return(w, into_response("IllegalMove"))
                  ELSE /\ pc' = [pc EXCEPT ![w] = "apply_play"]
                       /\ loc' = [loc EXCEPT ![w] =
                                    [uci |-> uci, m |-> m,
                                     san |-> SanOf[store[id].pos][m]]]
                       /\ UNCHANGED <<lock, resp, before>>
    /\ UNCHANGED <<workload, issued, req, initial, deleted>>

\* lines 237-251: lookup, UCI syntax, legality, then the SAN of the move in
\* the position before it is played; each failure returns
apply_move_validate(w) ==
    /\ pc[w] = "apply_validate"
    /\ LET id == req[w].id
           uci == ParsedUci[req[w].body]
           m == ToMoveOf[store[id].pos][uci]
       IN IF id \notin DOMAIN store
          THEN Return(w, into_response("NotFound"))
          ELSE IF uci = UciParseError
          THEN Return(w, into_response("BadRequest"))
          ELSE IF m = IllegalUciMoveError
          THEN Return(w, into_response("IllegalMove"))
          ELSE /\ pc' = [pc EXCEPT ![w] = "apply_play"]
               /\ loc' = [loc EXCEPT ![w] =
                            [uci |-> uci, m |-> m,
                             san |-> SanOf[store[id].pos][m]]]
               /\ UNCHANGED <<lock, resp, before>>
    /\ UNCHANGED <<workload, store, issued, req, initial, deleted>>

\* apply_move_play that leaves the stored position as it was
apply_move_play_skips(w) ==
    /\ pc[w] = "apply_play"
    /\ pc' = [pc EXCEPT ![w] = "apply_push_uci"]
    /\ UNCHANGED <<workload, store, lock, issued, req, loc, resp, initial, deleted, before>>

\* line 255: entry.pos.play_unchecked(m)
apply_move_play(w) ==
    /\ pc[w] = "apply_play"
    /\ store' = [store EXCEPT ![req[w].id].pos = PlayOf[@][loc[w].m]]
    /\ pc' = [pc EXCEPT ![w] = "apply_push_uci"]
    /\ UNCHANGED <<workload, lock, issued, req, loc, resp, initial, deleted, before>>

\* apply_move_push_uci that pushes the request text and the parsed text both
apply_move_push_uci_twice(w) ==
    /\ pc[w] = "apply_push_uci"
    /\ store' = [store EXCEPT ![req[w].id].history_uci =
                                Append(Append(@, req[w].body),
                                       UciMove_to_string(loc[w].uci))]
    /\ loc' = [loc EXCEPT ![w] =
                 [uci |-> loc[w].uci, m |-> loc[w].m, san |-> loc[w].san,
                  fen |-> FenOf[store[req[w].id].pos]]]
    /\ pc' = [pc EXCEPT ![w] = "apply_push_san"]
    /\ UNCHANGED <<workload, lock, issued, req, resp, initial, deleted, before>>

\* lines 257-258: the FEN of the new position; history_uci.push(uci.to_string())
apply_move_push_uci(w) ==
    /\ pc[w] = "apply_push_uci"
    /\ store' = [store EXCEPT ![req[w].id].history_uci =
                                Append(@, UciMove_to_string(loc[w].uci))]
    /\ loc' = [loc EXCEPT ![w] =
                 [uci |-> loc[w].uci, m |-> loc[w].m, san |-> loc[w].san,
                  fen |-> FenOf[store[req[w].id].pos]]]
    /\ pc' = [pc EXCEPT ![w] = "apply_push_san"]
    /\ UNCHANGED <<workload, lock, issued, req, resp, initial, deleted, before>>

\* apply_move_push_san that keeps only the last move's SAN
apply_move_push_san_overwrites(w) ==
    /\ pc[w] = "apply_push_san"
    /\ store' = [store EXCEPT ![req[w].id].history_san = <<loc[w].san>>]
    /\ pc' = [pc EXCEPT ![w] = "apply_respond"]
    /\ UNCHANGED <<workload, lock, issued, req, loc, resp, initial, deleted, before>>

\* line 259: history_san.push(san.clone())
apply_move_push_san(w) ==
    /\ pc[w] = "apply_push_san"
    /\ store' = [store EXCEPT ![req[w].id].history_san = Append(@, loc[w].san)]
    /\ pc' = [pc EXCEPT ![w] = "apply_respond"]
    /\ UNCHANGED <<workload, lock, issued, req, loc, resp, initial, deleted, before>>

\* lines 261-271: status and legal moves of the new position, the response
apply_move_respond(w) ==
    /\ pc[w] = "apply_respond"
    /\ Return(w, Ok(200, [id |-> req[w].id,
                          applied_uci |-> req[w].body,
                          applied_san |-> loc[w].san,
                          fen |-> loc[w].fen,
                          legal_moves |-> legal_moves_uci(store[req[w].id].pos),
                          status |-> StatusOf[store[req[w].id].pos]]))
    /\ UNCHANGED <<workload, store, issued, req, initial, deleted>>

Next ==
    \E w \in Workers :
        \/ \E fen \in CreateRequests(workload) : create_game_begin(w, fen)
        \/ create_game_parse(w)
        \/ create_game_acquire(w)
        \/ create_game_insert(w)
        \/ \E id \in Ids : get_game_request(w, id)
        \/ get_game_acquire(w)
        \/ get_game_respond(w)
        \/ \E id \in Ids : list_legal_moves_request(w, id)
        \/ list_legal_moves_acquire(w)
        \/ list_legal_moves_respond(w)
        \/ \E id \in Ids : delete_game_request(w, id)
        \/ delete_game_acquire(w)
        \/ delete_game_remove(w)
        \/ \E id \in Ids : \E uci \in UciInputs[workload] : apply_move_request(w, id, uci)
        \/ apply_move_acquire(w)
        \/ apply_move_validate(w)
        \/ apply_move_play(w)
        \/ apply_move_push_uci(w)
        \/ apply_move_push_san(w)
        \/ apply_move_respond(w)

Spec == Init /\ [][Next]_vars
\* the same service, driven through the end of a game
SpecEndings == InitEndings /\ [][Next]_vars

\* the steps of worker w's handler that wait for nothing: from the request's
\* arrival to its response, all but the wait for the lock
Runs(w) ==
    \/ create_game_parse(w)
    \/ create_game_insert(w)
    \/ get_game_respond(w)
    \/ list_legal_moves_respond(w)
    \/ delete_game_remove(w)
    \/ apply_move_validate(w)
    \/ apply_move_play(w)
    \/ apply_move_push_uci(w)
    \/ apply_move_push_san(w)
    \/ apply_move_respond(w)
\* worker w's read().await or write().await is granted
Granted(w) ==
    \/ create_game_acquire(w)
    \/ get_game_acquire(w)
    \/ list_legal_moves_acquire(w)
    \/ delete_game_acquire(w)
    \/ apply_move_acquire(w)
\* the runtime goes on running every handler that can run and every task
\* that was handed the lock; the lock's queue keeps later requests from
\* passing a waiting writer
Fairness == \A w \in Workers : WF_vars(Runs(w)) /\ WF_vars(Granted(w))
InitFair == Start({"start"})
SpecFair == InitFair /\ [][Next]_vars /\ Fairness

(***************************************************************************)
(* Properties                                                              *)
(***************************************************************************)
\* the step in which worker w returns its response
Completes(w) == ~Free(w) /\ pc'[w] = "done"
Failed(r) == ~r.ok
Present(id) == id \in DOMAIN store

\* C1: an apply-move request that ends in a failure (NotFound, BadRequest
\* or IllegalMove) leaves the whole registry, and so the session's position
\* and both histories, as it was when the request was granted the lock
C1_FailedMoveChangesNothing ==
    [][\A w \in Workers :
          (Completes(w) /\ req[w].op = "apply" /\ Failed(resp'[w]))
             => /\ resp'[w].error \in {"NotFound", "BadRequest", "IllegalMove"}
                /\ store' = before[w]
                /\ store' = store]_vars

\* a worker has been refused the illegal move e2e5 on a session that holds
\* one applied move
C1_Witness ==
    \E w \in Workers :
        /\ pc[w] = "done"
        /\ req[w].op = "apply"
        /\ resp[w] = into_response("IllegalMove")
        /\ Present(req[w].id)
        /\ Len(store[req[w].id].history_uci) = 1

\* the entry a legal move makes of an entry: the new position, and one more
\* UCI and SAN text
AppliedEntry(old, body) ==
    LET uci == UciMove_parse(body)
        m == UciMove_to_move(uci, old.pos)
    IN [pos |-> play_unchecked(old.pos, m),
        history_uci |-> Append(old.history_uci, UciMove_to_string(uci)),
        history_san |-> Append(old.history_san, San_from_move(old.pos, m))]

\* does the rules engine resolve the text to a legal move in the position
Resolves(body, pos) ==
    /\ UciMove_parse(body) # UciParseError
    /\ UciMove_to_move(UciMove_parse(body), pos) # IllegalUciMoveError

\* C2: a move is recorded if and only if it was legally applied: a history
\* only ever changes by the push of a worker applying a legal move to that
\* session, a session enters the registry with empty histories, and a
\* successful apply-move leaves the registry as it found it but for one more
\* UCI text, one more SAN text and the engine's new position in its session
C2_RecordedIffApplied ==
    [][/\ \A id \in DOMAIN store' :
            IF id \in DOMAIN store
            THEN /\ store'[id].history_uci # store[id].history_uci
                      => \E w \in Workers :
                            /\ pc[w] = "apply_push_uci" /\ req[w].id = id
                            /\ Resolves(req[w].body, before[w][id].pos)
                            /\ Len(store'[id].history_uci) =
                                 Len(store[id].history_uci) + 1
                 /\ store'[id].history_san # store[id].history_san
                      => \E w \in Workers :
                            /\ pc[w] = "apply_push_san" /\ req[w].id = id
                            /\ Resolves(req[w].body, before[w][id].pos)
                            /\ Len(store'[id].history_san) =
                                 Len(store[id].history_san) + 1
            ELSE store'[id].history_uci = <<>> /\ store'[id].history_san = <<>>
       /\ \A w \in Workers :
            (Completes(w) /\ req[w].op = "apply" /\ resp'[w].ok)
               => /\ req[w].id \in DOMAIN before[w]
                  /\ Resolves(req[w].body, before[w][req[w].id].pos)
                  /\ store' = [before[w] EXCEPT ![req[w].id] =
                                 AppliedEntry(@, req[w].body)]
                  /\ Len(store'[req[w].id].history_uci) =
                       Len(before[w][req[w].id].history_uci) + 1]_vars

\* a second move has just been applied to a session: two entries in each
\* history
C2_Witness ==
    \E w \in Workers :
        /\ pc[w] = "done" /\ req[w].op = "apply" /\ resp[w].ok
        /\ Present(req[w].id)
        /\ Len(store[req[w].id].history_uci) = 2
        /\ Len(store[req[w].id].history_san) = 2

\* the replay of a list of UCI texts from a position with the rules engine:
\* the position reached and the SAN of every move against the position it was
\* played in; ok is FALSE when a text does not resolve to a legal move
RECURSIVE ReplayMoves(_, _, _)
ReplayMoves(pos, ucis, sans) ==
    IF ucis = <<>>
    THEN [ok |-> TRUE, pos |-> pos, san |-> sans]
    ELSE IF ~Resolves(Head(ucis), pos)
    THEN [ok |-> FALSE, pos |-> pos, san |-> sans]
    ELSE LET m == UciMove_to_move(UciMove_parse(Head(ucis)), pos)
         IN ReplayMoves(play_unchecked(pos, m), Tail(ucis),
                        Append(sans, San_from_move(pos, m)))

\* the replays of the histories the clients' texts can make, tabulated
HistoryTexts ==
    {UciMove_to_string(ParsedUci[t]) :
        t \in {u \in AllUci : ParsedUci[u] # UciParseError}}
RECURSIVE HistoriesWithin(_)
HistoriesWithin(n) ==
    IF n = 0 THEN {<<>>}
    ELSE LET shorter == HistoriesWithin(n - 1)
         IN shorter \cup {Append(h, t) : h \in shorter, t \in HistoryTexts}
Histories == HistoriesWithin(MaxHistory)
InitialPositions ==
    {InitialPosition[f].pos : f \in {g \in CreateInputs : InitialPosition[g].ok}}
Replayed == [p \in InitialPositions |-> [h \in Histories |-> ReplayMoves(p, h, <<>>)]]
Replay(pos, ucis) ==
    IF pos \in InitialPositions /\ ucis \in Histories
    THEN Replayed[pos][ucis]
    ELSE ReplayMoves(pos, ucis, <<>>)

\* a session with every one of its moves fully applied
WholeSession(id) ==
    LET r == Replay(initial[id], store[id].history_uci)
    IN /\ r.ok
       /\ r.pos = store[id].pos
       /\ r.san = store[id].history_san

\* a Game representation taken from one fully applied session state
WholeGame(b) ==
    \E f \in CreateInputs :
        /\ InitialPosition[f].ok
        /\ LET r == Replay(InitialPosition[f].pos, b.moves_uci)
           IN /\ r.ok
              /\ b.fen = fen_of(r.pos)
              /\ b.moves_san = r.san
              /\ b.legal_moves = legal_moves_uci(r.pos)
              /\ b.status = status_of(r.pos)

\* C3: no reader sees a partly applied move or a partly built session: while a
\* reader holds the lock every session of the registry has its position,
\* its UCI history and its SAN history in step, and the Game a Get returns is
\* the representation of one fully applied state
C3_ReadersSeeWholeStates ==
    \A w \in Workers :
        /\ pc[w] \in {"get_read", "list_read"}
              => \A id \in DOMAIN store : WholeSession(id)
        /\ (pc[w] = "done" /\ req[w].op = "get" /\ resp[w].ok)
              => WholeGame(resp[w].body)

\* a reader holds the lock on a session with a move applied while a writer
\* with a move for that session waits for the lock
C3_Witness ==
    \E w, v \in Workers :
        /\ pc[w] = "get_read" /\ pc[v] = "apply_lock"
        /\ req[w].id = req[v].id
        /\ Present(req[w].id)
        /\ store[req[w].id].history_uci # <<>>

\* the steps of apply_move made under the write lock
ApplyInside ==
    {"apply_validate", "apply_play", "apply_push_uci", "apply_push_san",
     "apply_respond"}

\* C4: apply-moves on one session are serialized: two workers are never both
\* inside the locked part of apply_move, the move a worker is about to play
\* was validated against the session as it stands now, and a worker about to
\* respond finds the session it was granted plus its own entry, so no entry
\* of another worker is lost
C4_AppliesSerialized ==
    \A w \in Workers :
        pc[w] \in ApplyInside
           => /\ \A v \in Workers \ {w} : pc[v] \notin ApplyInside
              /\ pc[w] = "apply_play"
                    => /\ store[req[w].id] = before[w][req[w].id]
                       /\ is_legal(store[req[w].id].pos, loc[w].m)
              /\ pc[w] = "apply_respond"
                    => store = [before[w] EXCEPT ![req[w].id] =
                                  AppliedEntry(@, req[w].body)]

\* one worker is about to play its validated move while another worker waits
\* for the lock with the same move for the same session
C4_Witness ==
    \E w, v \in Workers :
        /\ pc[w] = "apply_play" /\ pc[v] = "apply_lock"
        /\ req[w].id = req[v].id
        /\ req[w].body = req[v].body

\* C5: apply_move checks in a fixed order: the session lookup first (404
\* NotFound), the UCI syntax second (400 BadRequest), the legality of the
\* move in the current position last (422 IllegalMove); a request that passes
\* all three is answered 200
C5_ChecksInOrder ==
    [][\A w \in Workers :
          (Completes(w) /\ req[w].op = "apply")
             => IF req[w].id \notin DOMAIN before[w]
                THEN /\ Failed(resp'[w])
                     /\ resp'[w].error = "NotFound" /\ resp'[w].code = 404
                ELSE IF UciMove_parse(req[w].body) = UciParseError
                THEN /\ Failed(resp'[w])
                     /\ resp'[w].error = "BadRequest" /\ resp'[w].code = 400
                ELSE IF ~Resolves(req[w].body, before[w][req[w].id].pos)
                THEN /\ Failed(resp'[w])
                     /\ resp'[w].error = "IllegalMove" /\ resp'[w].code = 422
                ELSE resp'[w].ok /\ resp'[w].code = 200]_vars

\* a request whose session is absent and whose text is not UCI either has
\* been answered 404
C5_Witness ==
    \E w \in Workers :
        /\ pc[w] = "done" /\ req[w].op = "apply"
        /\ UciMove_parse(req[w].body) = UciParseError
        /\ Failed(resp[w])
        /\ resp[w].code = 404

\* C6: once a session is deleted, every Get, ListLegalMoves, ApplyMove and
\* Delete naming its id is answered NotFound and changes nothing, the id
\* never comes back into the registry, and a Delete of an id that is absent
\* is answered NotFound and changes nothing
C6_DeletedStaysGone ==
    /\ [](deleted \cap DOMAIN store = {})
    /\ [][\A w \in Workers :
            (Completes(w) /\ req[w].op \in {"get", "list", "apply", "delete"})
               => /\ req[w].id \in deleted
                       => /\ resp'[w] = into_response("NotFound")
                          /\ resp'[w].code = 404
                          /\ store' = store
                  /\ (req[w].op = "delete" /\ req[w].id \notin DOMAIN before[w])
                       => /\ resp'[w] = into_response("NotFound")
                          /\ store' = store
                  /\ (req[w].op = "delete" /\ req[w].id \in DOMAIN before[w])
                       => /\ resp'[w].ok /\ resp'[w].code = 204
                          /\ req[w].id \notin DOMAIN store'
                          /\ \A j \in DOMAIN before[w] \ {req[w].id} :
                                j \in DOMAIN store' /\ store'[j] = before[w][j]]_vars

\* a Get and a second Delete of a deleted session have both been answered
\* NotFound
C6_Witness ==
    \E w, v \in Workers :
        /\ pc[w] = "done" /\ req[w].op = "get"
        /\ pc[v] = "done" /\ req[v].op = "delete"
        /\ req[w].id = req[v].id
        /\ req[w].id \in deleted
        /\ resp[w] = into_response("NotFound")
        /\ resp[v] = into_response("NotFound")

\* C7: a Create whose FEN does not decode to a legal position is answered
\* BadRequest with no id, and the registry is left as it was; a Create fails
\* for no other reason
C7_BadFenCreatesNothing ==
    [][\A w \in Workers :
          /\ (pc[w] = "create_parse" /\ pc'[w] # "create_parse"
                /\ ~position_of_request(req[w].body).ok)
               => /\ pc'[w] = "done"
                  /\ Failed(resp'[w])
                  /\ resp'[w].error = "BadRequest" /\ resp'[w].code = 400
                  /\ "id" \notin DOMAIN resp'[w]
                  /\ store' = store
          /\ (Completes(w) /\ req[w].op = "create" /\ Failed(resp'[w]))
               => ~position_of_request(req[w].body).ok]_vars

\* a Create with a FEN that has no white king has been refused while the
\* registry holds a session
C7_Witness ==
    \E w \in Workers :
        /\ pc[w] = "done" /\ req[w].op = "create"
        /\ req[w].body # <<>>
        /\ resp[w] = into_response("BadRequest")
        /\ store # NoStore

\* C8: Creates, concurrent or not, return distinct ids, given that
\* Uuid::new_v4 never returns an id twice: the id a Create inserts is neither
\* in the registry nor deleted, the registry gains that one entry and keeps
\* every other entry as it was
C8_CreatesAreDistinct ==
    /\ [](\A w, v \in Workers :
            (w # v /\ pc[w] = "done" /\ pc[v] = "done"
               /\ req[w].op = "create" /\ req[v].op = "create"
               /\ resp[w].ok /\ resp[v].ok)
              => resp[w].body.id # resp[v].body.id)
    /\ [][\A w \in Workers :
            (Completes(w) /\ req[w].op = "create" /\ resp'[w].ok)
               => LET id == resp'[w].body.id
                  IN /\ resp'[w].code = 200
                     /\ id \notin DOMAIN store
                     /\ id \notin deleted
                     /\ DOMAIN store' = DOMAIN store \cup {id}
                     /\ \A j \in DOMAIN store : store'[j] = store[j]
                     /\ store'[id] = GameEntry(position_of_request(req[w].body).pos)]_vars

\* two Creates that were in flight at the same time have both been answered,
\* and the registry holds both sessions
C8_Witness ==
    \E w, v \in Workers :
        /\ w # v
        /\ pc[w] = "done" /\ pc[v] = "done"
        /\ req[w].op = "create" /\ req[v].op = "create"
        /\ resp[w].ok /\ resp[v].ok
        /\ resp[w].body.id # resp[v].body.id
        /\ DOMAIN store = {resp[w].body.id, resp[v].body.id}

\* the UCI texts of a session's moves: its history and, while a worker has
\* played a move and not pushed its text yet, that text
MovesPlayed(id) ==
    LET pushing == {w \in Workers : pc[w] = "apply_push_uci" /\ req[w].id = id}
    IN IF pushing = {} THEN store[id].history_uci
       ELSE Append(store[id].history_uci,
                   UciMove_to_string(loc[CHOOSE w \in pushing : TRUE].uci))

\* C9: the position of every session is the rules engine's replay of the
\* session's UCI history from the position the session was created with; in
\* the one state inside apply_move between play_unchecked and the push, which
\* the write lock hides, the move being pushed counts as well
C9_PositionIsReplay ==
    \A id \in DOMAIN store :
        LET r == Replay(initial[id], MovesPlayed(id))
        IN /\ r.ok
           /\ r.pos = store[id].pos
           /\ lock.writer = NoWorker => MovesPlayed(id) = store[id].history_uci

\* a session created from a FEN has three moves in its history, a promotion
\* among them, and the lock is free
C9_Witness ==
    \E id \in DOMAIN store :
        /\ initial[id] # Chess_default
        /\ lock = Unlocked
        /\ Len(store[id].history_uci) = MaxHistory
        /\ \E i \in 1..MaxHistory : Len(store[id].history_uci[i]) = 5

\* the SAN texts of a session's moves: its history and, while a worker has
\* pushed the UCI text and not the SAN text yet, that SAN text
SanPlayed(id) ==
    LET pushing == {w \in Workers : pc[w] = "apply_push_san" /\ req[w].id = id}
    IN IF pushing = {} THEN store[id].history_san
       ELSE Append(store[id].history_san, loc[CHOOSE w \in pushing : TRUE].san)

\* C10: the two histories of every session have the same length, the i-th SAN
\* text is the SAN of the i-th UCI move in the position that held before it,
\* and both are empty right after Create; in the one state inside apply_move
\* between the two pushes, which the write lock hides, the SAN being pushed
\* counts as well
C10_HistoriesParallel ==
    /\ [](\A id \in DOMAIN store :
            LET r == Replay(initial[id], store[id].history_uci)
            IN /\ r.ok
               /\ r.san = SanPlayed(id)
               /\ Len(SanPlayed(id)) = Len(store[id].history_uci)
               /\ lock.writer = NoWorker =>
                     Len(store[id].history_san) = Len(store[id].history_uci))
    /\ [][\A w \in Workers :
            (Completes(w) /\ req[w].op = "create" /\ resp'[w].ok)
               => /\ store'[resp'[w].body.id].history_uci = <<>>
                  /\ store'[resp'[w].body.id].history_san = <<>>]_vars

\* a session holds a move whose SAN needs the position before the move: the
\* rook from a1 to d1 with another rook on f1 is Rad1
C10_Witness ==
    \E id \in DOMAIN store :
        /\ lock = Unlocked
        /\ Len(store[id].history_san) >= 2
        /\ \E i \in 1..Len(store[id].history_san) :
              /\ store[id].history_uci[i] = <<"a", "1", "d", "1">>
              /\ store[id].history_san[i] = <<"R", "a", "d", "1">>

\* a position whose derived status is Checkmate, Stalemate or Draw
Terminal(pos) == status_of(pos).status \in {"checkmate", "stalemate", "draw"}

\* C11: a session whose status is Checkmate, Stalemate or Draw never changes
\* again while it is in the registry, and every apply-move on it with a UCI
\* text is answered IllegalMove
C11_TerminalRefusesEveryMove ==
    [][/\ \A id \in DOMAIN store \cap DOMAIN store' :
            Terminal(store[id].pos) => store'[id] = store[id]
       /\ \A w \in Workers :
            (/\ Completes(w) /\ req[w].op = "apply"
             /\ req[w].id \in DOMAIN before[w]
             /\ Terminal(before[w][req[w].id].pos)
             /\ UciMove_parse(req[w].body) # UciParseError)
               => /\ resp'[w] = into_response("IllegalMove")
                  /\ store' = before[w]]_vars

\* the number of halfmoves without a capture or a pawn move at which the game
\* is drawn: the seventy-five-move rule (the fifty-move rule is reached before)
MoveCountLimit == 2 * 75

\* the positions a session went through, the initial position first
RECURSIVE PositionsPlayed(_, _)
PositionsPlayed(pos, ucis) ==
    IF ucis = <<>> \/ ~Resolves(Head(ucis), pos)
    THEN <<pos>>
    ELSE <<pos>> \o PositionsPlayed(
                      play_unchecked(pos, UciMove_to_move(UciMove_parse(Head(ucis)), pos)),
                      Tail(ucis))

\* the same position for the purposes of repetition: the same board, side to
\* move, castling rights and en passant square
Repeats(p, q) ==
    /\ p.board = q.board /\ p.turn = q.turn
    /\ p.castles = q.castles
    /\ legal_ep_square(p) = legal_ep_square(q)

\* the position of the session has occurred three times
ThreefoldRepetition(id) ==
    LET played == PositionsPlayed(initial[id], store[id].history_uci)
    IN Cardinality({i \in 1..Len(played) : Repeats(played[i], store[id].pos)}) >= 3

\* C13: a session whose moves have exhausted the move-count limit or repeated
\* the position three times has the status Draw
C13_ShufflingEndsInDraw ==
    \A id \in DOMAIN store :
        (/\ \A w \in Workers : ~(pc[w] \in ApplyInside /\ req[w].id = id)
         /\ store[id].history_uci # <<>>
         /\ \/ store[id].pos.halfmoves >= MoveCountLimit
            \/ ThreefoldRepetition(id))
           => status_of(store[id].pos) = [status |-> "draw"]

\* the side to move named by a FEN text
SideInFen(fen) == IF SplitBy(fen, " ")[2] = <<"w">> THEN White ELSE Black

\* C12: a move that leaves the opponent in check with no legal move is
\* answered with the status Checkmate, the winner being the side that moved,
\* and an empty list of legal moves; no response reports Checkmate with legal
\* moves left or with the side to move as the winner
C12_CheckmateNamesTheMatingSide ==
    /\ [](\A w \in Workers :
            (/\ pc[w] = "done" /\ resp[w].ok /\ req[w].op \in {"apply", "get"}
             /\ resp[w].body.status.status = "checkmate")
               => /\ resp[w].body.legal_moves = {}
                  /\ resp[w].body.status.winner = Other(SideInFen(resp[w].body.fen)))
    /\ [][\A w \in Workers :
            (Completes(w) /\ req[w].op = "apply" /\ resp'[w].ok)
               => LET old == before[w][req[w].id].pos
                      new == store'[req[w].id].pos
                      mated == is_check(new) /\ legal_moves(new) = {}
                  IN /\ mated <=> resp'[w].body.status.status = "checkmate"
                     /\ mated => /\ resp'[w].body.status =
                                      [status |-> "checkmate", winner |-> old.turn]
                                 /\ resp'[w].body.legal_moves = {}]_vars

\* the promotion on b8 has mated the black king: the response names white
C12_Witness ==
    \E w \in Workers :
        /\ pc[w] = "done" /\ req[w].op = "apply" /\ resp[w].ok
        /\ resp[w].body.status = [status |-> "checkmate", winner |-> White]
        /\ resp[w].body.legal_moves = {}
        /\ SideInFen(resp[w].body.fen) = Black

\* the steps a handler makes under the write guard, and under the read guard
Writing == {"create_insert", "delete_remove"} \cup ApplyInside
Reading == {"get_read", "list_read"}
Waiting == {"create_lock", "get_lock", "list_lock", "delete_lock", "apply_lock"}

\* C14: Create, Delete and the whole of apply_move hold the registry
\* exclusively, Get and the listing of legal moves hold it shared: while a
\* worker is in a writing step it is the lock's writer, the lock has no
\* reader and no other worker is in a writing or reading step; a worker in a
\* reading step is one of the lock's readers and there is no writer; the
\* lock never has a writer and readers at once; a worker elsewhere holds
\* nothing, unless the lock was handed to it while it waited and it has not
\* run since, and then it holds what it asked for; and the registry only
\* changes by a step of the worker that is the lock's writer
C14_WritersExcludeReadersShare ==
    /\ [](\A w \in Workers :
            /\ pc[w] \in Writing
                  => /\ lock.writer = w /\ lock.readers = {}
                     /\ \A v \in Workers \ {w} : pc[v] \notin Writing \cup Reading
            /\ pc[w] \in Reading => (w \in lock.readers /\ lock.writer = NoWorker)
            /\ lock.writer = w => lock.readers = {}
            /\ pc[w] \notin Writing \cup Reading \cup Waiting => ~Holds(lock, w)
            /\ pc[w] \in {"get_lock", "list_lock"} => lock.writer # w
            /\ pc[w] \in Waiting \ {"get_lock", "list_lock"}
                  => w \notin lock.readers)
    /\ [][store' # store
            => \E w \in Workers :
                  /\ pc[w] \in Writing /\ lock.writer = w
                  /\ pc'[w] # pc[w]
                  /\ \A v \in Workers \ {w} : pc'[v] = pc[v]]_vars

\* two readers hold the registry at the same time
C14_Witness ==
    \E w, v \in Workers :
        /\ w # v
        /\ pc[w] = "get_read" /\ pc[v] = "list_read"
        /\ lock.readers = {w, v}
        /\ store # NoStore

\* C15: a session leaves the registry only in the step that completes a
\* successful delete_game addressed to its id, and its entry changes only in
\* a step of an apply_move addressed to its id; every id a create_game
\* returned is still registered unless a delete_game of that id succeeded
C15_OnlyAddressedOperationsTouch ==
    /\ [](\A w \in Workers :
            (pc[w] = "done" /\ req[w].op = "create" /\ resp[w].ok)
                => resp[w].body.id \in DOMAIN store \cup deleted)
    /\ [][\A id \in DOMAIN store :
            /\ id \notin DOMAIN store'
                  => \E w \in Workers :
                        /\ req[w] = [op |-> "delete", id |-> id, body |-> req[w].body]
                        /\ Completes(w)
                        /\ resp'[w] = Ok(204, <<>>)
                        /\ deleted' = deleted \cup {id}
            /\ (id \in DOMAIN store' /\ store'[id] # store[id])
                  => \E w \in Workers :
                        /\ req[w].op = "apply"
                        /\ req[w].id = id
                        /\ pc[w] \in ApplyInside
                        /\ pc'[w] # pc[w]]_vars

C15_Witness ==
    \E w \in Workers :
        /\ pc[w] = "done"
        /\ req[w].op = "delete"
        /\ resp[w] = Ok(204, <<>>)
        /\ \E id \in DOMAIN store :
              /\ id # req[w].id
              /\ store[id].history_uci # <<>>

\* rnbqkbnr/pppppppp/8/8/8/8/PPPPPPPP/RNBQKBNR w KQkq - 0 1
StandardFen ==
    <<"r", "n", "b", "q", "k", "b", "n", "r", "/", "p", "p", "p", "p", "p", "p", "p", "p", "/", "8", "/", "8", "/", "8", "/", "8", "/", "P", "P", "P", "P", "P", "P", "P", "P", "/", "R", "N", "B", "Q", "K", "B", "N", "R", " ", "w", " ", "K", "Q", "k", "q", " ", "-", " ", "0", " ", "1">>
\* the 20 first moves of chess: 16 pawn moves and 4 knight moves
StandardFirstMoves ==
    {<<"a", "2", "a", "3">>,
     <<"a", "2", "a", "4">>,
     <<"b", "2", "b", "3">>,
     <<"b", "2", "b", "4">>,
     <<"c", "2", "c", "3">>,
     <<"c", "2", "c", "4">>,
     <<"d", "2", "d", "3">>,
     <<"d", "2", "d", "4">>,
     <<"e", "2", "e", "3">>,
     <<"e", "2", "e", "4">>,
     <<"f", "2", "f", "3">>,
     <<"f", "2", "f", "4">>,
     <<"g", "2", "g", "3">>,
     <<"g", "2", "g", "4">>,
     <<"h", "2", "h", "3">>,
     <<"h", "2", "h", "4">>,
     <<"b", "1", "a", "3">>,
     <<"b", "1", "c", "3">>,
     <<"g", "1", "f", "3">>,
     <<"g", "1", "h", "3">>}
Fresh(entry) ==
    /\ fen_of(entry.pos) = StandardFen
    /\ entry.history_uci = <<>>
    /\ entry.history_san = <<>>

\* C16: a create_game request without a FEN succeeds and registers under
\* the returned id a session whose position is the standard start position,
\* with both histories empty; the response shows the standard FEN, and a
\* get_game or list_legal_moves of a session in that state reports exactly
\* the 20 first moves
C16_DefaultCreateIsStartPosition ==
    [][\A w \in Workers :
         /\ (Completes(w) /\ req[w].op = "create" /\ req[w].body = <<>>)
               => /\ resp'[w].ok
                  /\ resp'[w].body.fen = StandardFen
                  /\ resp'[w].body.id \in DOMAIN store' \ DOMAIN store
                  /\ Fresh(store'[resp'[w].body.id])
                  /\ store'[resp'[w].body.id].pos.turn = White
                  /\ legal_moves_uci(store'[resp'[w].body.id].pos) = StandardFirstMoves
                  /\ Cardinality(legal_moves_uci(store'[resp'[w].body.id].pos)) = 20
         /\ (/\ Completes(w) /\ req[w].op \in {"get", "list"}
             /\ req[w].id \in DOMAIN store
             /\ Fresh(store[req[w].id]))
               => /\ resp'[w].ok
                  /\ Cardinality(IF req[w].op = "get"
                                 THEN resp'[w].body.legal_moves
                                 ELSE resp'[w].body) = 20
                  /\ req[w].op = "get" =>
                        /\ resp'[w].body.fen = StandardFen
                        /\ resp'[w].body.moves_uci = <<>>
                        /\ resp'[w].body.moves_san = <<>>
                        /\ resp'[w].body.status =
                              [status |-> "ongoing", to_move |-> White, in_check |-> FALSE]]_vars

C16_Witness ==
    \E w \in Workers, v \in Workers :
        /\ pc[w] = "done" /\ req[w].op = "create" /\ req[w].body = <<>>
        /\ resp[w].ok
        /\ pc[v] = "done" /\ req[v].op = "list" /\ req[v].id = resp[w].body.id
        /\ resp[v].ok
        /\ Cardinality(resp[v].body) = 20
        /\ Fresh(store[req[v].id])

IsPrefix(old, new) ==
    /\ Len(old) <= Len(new)
    /\ \A i \in 1 .. Len(old) : new[i] = old[i]

\* C17: for a session registered before and after a step, each of its two
\* histories before the step is a prefix of the same history after it, and
\* grows by at most one entry: entries are appended, never removed,
\* reordered or rewritten
C17_HistoriesOnlyGrow ==
    [][\A id \in DOMAIN store \cap DOMAIN store' :
         /\ IsPrefix(store[id].history_uci, store'[id].history_uci)
         /\ IsPrefix(store[id].history_san, store'[id].history_san)
         /\ Len(store'[id].history_uci) <= Len(store[id].history_uci) + 1
         /\ Len(store'[id].history_san) <= Len(store[id].history_san) + 1]_vars

C17_Witness ==
    \E id \in DOMAIN store :
        /\ Len(store[id].history_uci) >= 2
        /\ Len(store[id].history_san) >= 2
        /\ \E w \in Workers :
              /\ pc[w] = "done" /\ req[w].op = "apply" /\ req[w].id = id
              /\ resp[w].ok

Statuses == {"ongoing", "checkmate", "stalemate", "draw"}
NoMoveNoCheck(pos) == legal_moves(pos) = {} /\ ~is_check(pos)
\* what the status of a position has to be
StatusDerived(st, pos) ==
    LET kind == outcome(pos).kind
        stuck == NoMoveNoCheck(pos)
    IN /\ st.status \in Statuses
       /\ st.status = "stalemate" <=> (kind = "Draw" /\ stuck)
       /\ st.status = "draw" <=> (kind = "Draw" /\ ~stuck)
       /\ st.status = "checkmate" <=> kind = "Decisive"
       /\ st.status = "ongoing" <=> kind = "Unknown"
       /\ st.status = "ongoing" =>
             st = [status |-> "ongoing", to_move |-> pos.turn, in_check |-> is_check(pos)]
\* status_of on every position the clients' requests reach
StatusDerivedEverywhere == \A pos \in Positions : StatusDerived(status_of(pos), pos)

\* C18: status_of gives every position exactly one of the four statuses:
\* stalemate exactly when the engine's outcome is a draw and the side to move
\* has no legal move and is not in check, draw for every other drawn outcome,
\* ongoing (with the side to move and whether it is in check) exactly when
\* the engine reports no outcome; every status a get_game or apply_move
\* returns is the one derived from the session's position
C18_StatusDerivation ==
    /\ []StatusDerivedEverywhere
    /\ [][\A w \in Workers :
            (Completes(w) /\ req[w].op \in {"get", "apply"} /\ resp'[w].ok)
                => StatusDerived(resp'[w].body.status, store'[req[w].id].pos)]_vars

C18_Witness ==
    \E w \in Workers, v \in Workers :
        /\ pc[w] = "done" /\ req[w].op = "apply" /\ resp[w].ok
        /\ resp[w].body.status = [status |-> "stalemate"]
        /\ resp[w].body.legal_moves = {}
        /\ pc[v] = "done" /\ req[v].op = "get" /\ resp[v].ok
        /\ resp[v].body.status = [status |-> "draw"]
        /\ resp[v].body.legal_moves # {}

Last(seq) == seq[Len(seq)]

\* C19: in the step that completes a successful apply_move, the applied_uci
\* of the response is the entry the request appended to history_uci (the
\* last one, which a get_game right after shows as the last of moves_uci),
\* and the applied_san is the entry it appended to history_san
C19_ResponseShowsAppendedEntries ==
    [][\A w \in Workers :
         (Completes(w) /\ req[w].op = "apply" /\ resp'[w].ok)
            => /\ store'[req[w].id].history_uci # <<>>
               /\ resp'[w].body.applied_uci = Last(store'[req[w].id].history_uci)
               /\ resp'[w].body.applied_uci =
                     Last(game_response(req[w].id, store'[req[w].id]).moves_uci)
               /\ resp'[w].body.applied_san = Last(store'[req[w].id].history_san)]_vars


\* C20: a worker without a request in hand holds no share of the lock and is
\* not in its queue (every return, the error returns too, has dropped the
\* guard); a worker waiting for the lock has been handed it and can go on,
\* or is in the queue while another worker holds the lock that can go on,
\* so no state is a deadlock and nobody waits for a lock that is free for
\* it; a request is handed the lock at most once, a request that was not
\* waiting only when nobody was, and the step that gives the lock up is the
\* one that returns the response; and with a runtime that goes on running
\* every handler, every request taken ends with a response
C20_EveryRequestCompletes ==
    /\ [](/\ \A w \in Workers :
              /\ Free(w) => ~Holds(lock, w) /\ ~Queued(lock, w)
              /\ Holds(lock, w) => ~Queued(lock, w)
              /\ pc[w] \in Waiting =>
                    \/ Holds(lock, w) /\ ENABLED Granted(w)
                    \/ /\ Queued(lock, w)
                       /\ ~ENABLED Granted(w)
                       /\ \E v \in Workers \ {w} :
                             /\ Holds(lock, v)
                             /\ \/ pc[v] \in Writing \cup Reading
                                   /\ ENABLED Runs(v)
                                \/ pc[v] \in Waiting /\ ENABLED Granted(v)
              /\ pc[w] \notin Waiting => ~Queued(lock, w)
              /\ pc[w] \notin Waiting \cup {"idle", "done"} => ENABLED Runs(w)
           /\ lock.waiters # <<>> =>
                 \/ lock.writer # NoWorker
                 \/ Head(lock.waiters).mode = "write" /\ lock.readers # {})
    /\ [][\A w \in Workers :
            /\ (~Holds(lock, w) /\ Holds(lock', w))
                  => /\ pc[w] \in Waiting \cup {"idle", "done", "create_parse"}
                     /\ pc'[w] \in Writing \cup Reading \cup Waiting
                     /\ pc'[w] \in Waiting => pc[w] \in Waiting
                     /\ ~Queued(lock, w) => lock.waiters = <<>>
            /\ (Holds(lock, w) /\ ~Holds(lock', w)) => pc'[w] = "done"]_vars
    /\ \A w \in Workers : (~Free(w)) ~> (pc[w] = "done" /\ resp[w] # NoResponse)

\* a writer waits in the lock's queue while a reader of the same session
\* holds the lock
C20_Witness ==
    \E w \in Workers, v \in Workers :
        /\ pc[w] = "apply_lock"
        /\ pc[v] = "get_read"
        /\ req[w].id = req[v].id
        /\ req[w].id \in DOMAIN store
        /\ lock = [writer |-> NoWorker, readers |-> {v},
                   waiters |-> <<[who |-> w, mode |-> "write"]>>]

====
